---- MODULE Spec2Model ----
(***************************************************************************)
(* Publish orchestration of the serverless social uploader: the /publish   *)
(* handler, process_publish_request and upload_to_platform of main.py,     *)
(* with the secret lookup of utils/secrets.py.  One job is followed from   *)
(* the arrival of the request to the return (or failure) of the job.       *)
(***************************************************************************)
EXTENDS Integers, Sequences, FiniteSets, TLC

(***************************************************************************)
(* Bounds of the model.                                                    *)
(***************************************************************************)
\* longest platform list of a request
MaxPlatforms == 3
\* largest number of required secrets absent from the store
MaxMissing == 2

(***************************************************************************)
(* Platforms and the dynamic secret lookup.                                *)
(***************************************************************************)
Platform == {"youtube", "tiktok", "facebook", "instagram"}

\* the channel of the request
channel_id == "timeline_b"

\* str.upper on the strings the lookups use
upper(s) ==
    CASE s = "timeline_b" -> "TIMELINE_B"
      [] s = "youtube" -> "YOUTUBE"
      [] s = "tiktok" -> "TIKTOK"
      [] s = "facebook" -> "FACEBOOK"
      [] s = "instagram" -> "INSTAGRAM"
      [] s = "client_id" -> "CLIENT_ID"
      [] s = "client_secret" -> "CLIENT_SECRET"
      [] s = "refresh_token" -> "REFRESH_TOKEN"
      [] s = "session_cookie" -> "SESSION_COOKIE"
      [] s = "access_token" -> "ACCESS_TOKEN"
      [] s = "page_id" -> "PAGE_ID"
      [] s = "user_id" -> "USER_ID"
      [] OTHER -> s

\* f"{channel_id.upper()}_{platform.upper()}_{key_type.upper()}", kept as its pieces
build_secret_name(channel, platform, key_type) ==
    <<upper(channel), "_", upper(platform), "_", upper(key_type)>>

\* a mutation of RequiredKeys: the facebook and instagram branches stop at the token
RequiredKeys_token_only(platform) ==
    CASE platform = "youtube" -> <<"client_id", "client_secret", "refresh_token">>
      [] platform = "tiktok" -> <<"session_cookie">>
      [] platform = "facebook" -> <<"access_token">>
      [] platform = "instagram" -> <<"access_token">>

\* the get_channel_secret calls of each branch of upload_to_platform, in call order
RequiredKeys(platform) ==
    CASE platform = "youtube" -> <<"client_id", "client_secret", "refresh_token">>
      [] platform = "tiktok" -> <<"session_cookie">>
      [] platform = "facebook" -> <<"access_token", "page_id">>
      [] platform = "instagram" -> <<"access_token", "user_id">>

\* every secret name some platform branch looks up
AllSecretNames ==
    UNION { { build_secret_name(channel_id, p, RequiredKeys(p)[n]) :
                n \in 1..Len(RequiredKeys(p)) } : p \in Platform }

(***************************************************************************)
(* Result dicts.  A message is a sequence of text pieces; None is the      *)
(* value a JSON null decodes to, the one message that is not a str.        *)
(***************************************************************************)
None == <<"<None>">>
NoId == "<no id>"
NoCode == 0

Result(platform, status, message, video_id, error_code) ==
    [platform |-> platform, status |-> status, message |-> message,
     video_id |-> video_id, error_code |-> error_code]

\* str(e) of the NotFound raised by access_secret_version
NotFound(secret_name) == <<"404 Secret not found: ">> \o secret_name

\* {"platform": platform.value, "status": "validated", "message": "Secrets found"}
ValidatedResult(platform) ==
    Result(platform, "validated", <<"Secrets found">>, NoId, NoCode)

\* a mutation of ExceptionResult: the error is reported for the whole job
ExceptionResult_all(platform, e) ==
    Result("all", "error", e, NoId, NoCode)

\* except Exception as e: {"platform": platform.value, "status": "error", "message": str(e)}
ExceptionResult(platform, e) ==
    Result(platform, "error", e, NoId, NoCode)

\* [{"platform": "all", "status": "error", "message": f"Video download failed: {e}"}]
DownloadFailedResult ==
    <<Result("all", "error", <<"Video download failed: ", "e">>, NoId, NoCode)>>

Returns(value) == [raises |-> FALSE, value |-> value]
Raises(e) == [raises |-> TRUE, value |-> e]

(***************************************************************************)
(* What one call of each platform uploader can hand back to                *)
(* upload_to_platform: a result dict, or an exception.                     *)
(***************************************************************************)
youtube_upload_video ==
    { Returns(Result("youtube", "success", <<>>, "abc123", NoCode)),
      Returns(Result("youtube", "error", <<"HttpError 403">>, NoId, 403)),
      Raises(<<"Upload failed after 10 retries">>) }

tiktok_upload_video ==
    { Returns(Result("tiktok", "success", <<"Video uploaded successfully">>, NoId, NoCode)),
      Returns(Result("tiktok", "error", <<"Upload page failed to load">>, NoId, NoCode)) }

upload_to_facebook ==
    { Returns(Result("facebook", "success", <<>>, "fb1", NoCode)),
      Returns(Result("facebook", "error", <<"Invalid token">>, NoId, 401)),
      Returns(Result("facebook", "error", None, NoId, 400)),
      Raises(<<"JSONDecodeError">>) }

upload_to_instagram ==
    { Returns(Result("instagram", "success", <<>>, "ig1", NoCode)),
      Returns(Result("instagram", "error", <<"Video processing failed or timed out">>, NoId, NoCode)),
      Returns(Result("instagram", "error", None, NoId, 400)) }

\* the dispatch of upload_to_platform on the platform
Uploader(platform) ==
    CASE platform = "youtube" -> youtube_upload_video
      [] platform = "tiktok" -> tiktok_upload_video
      [] platform = "facebook" -> upload_to_facebook
      [] platform = "instagram" -> upload_to_instagram

(***************************************************************************)
(* State.                                                                  *)
(***************************************************************************)
VARIABLES
    platforms,   \* request.platforms
    dry_run,     \* the dry_run query parameter
    store,       \* the secret names present in Secret Manager
    pc,          \* where the job is
    response,    \* PublishResponse.status sent by /publish, "none" before
    tmp_dir,     \* the TemporaryDirectory: "none", "exists", "removed"
    video_file,  \* local_video_path: "absent", "partial", "complete"
    i,           \* index of the platform the for loop is at
    k,           \* index of the next get_channel_secret call of the attempt
    result,      \* the dict upload_to_platform returned for platform i
    results,     \* the results list
    retval,      \* the list process_publish_request returned
    download,    \* how download_from_url ended: "not run", "ok", "failed"
    downloads,   \* calls of download_from_url so far
    cleanups,    \* cleanups of the TemporaryDirectory so far
    leaving,     \* how the with block is being left: "", "return", "end", "raise"
    started,     \* calls of upload_to_platform so far
    resolved,    \* <<i, secret name>> of every get_secret call so far
    invoked,     \* <<i, platform>> of every uploader call so far
    outcomes,    \* how every uploader call so far ended
    job_id       \* PublishResponse.job_id sent by /publish, "none" before

\* the state of the job: the /publish handler and process_publish_request
job_vars == <<platforms, dry_run, store, pc, response, tmp_dir, video_file, i, k,
              result, results, retval, leaving, download, downloads, cleanups,
              started, resolved, invoked, outcomes, job_id>>

(***************************************************************************)
(* State of one call of platforms/youtube.py upload_video.                 *)
(***************************************************************************)
VARIABLES
    yt_pc,       \* "idle", "chunk" (before next_chunk), "backoff", "done"
    chunks,      \* number of chunks of the file
    sent,        \* chunks the server has taken; response is None while sent < chunks
    retry,       \* the retry counter of _resumable_upload
    yt_result,   \* what upload_to_platform gets back for the call
    calls,       \* calls of insert_request.next_chunk so far
    sleeps,      \* calls of time.sleep so far
    last_sleep,  \* [n, q]: the last pause, before retry n, of q / RandDen seconds
    streak,      \* transient failures in a row just now
    worst,       \* longest run of transient failures in a row so far
    bursts,      \* runs of transient failures so far
    fatal        \* the non-retriable HTTP status received, 0 if none

yt_vars == <<yt_pc, chunks, sent, retry, yt_result, calls, sleeps, last_sleep,
             streak, worst, bursts, fatal>>

(***************************************************************************)
(* State of one call of platforms/meta.py upload_to_facebook or            *)
(* upload_to_instagram.                                                    *)
(***************************************************************************)
VARIABLES
    meta_pc,            \* "idle", "facebook", "instagram", "create", "poll", "sleep", "publish", "done"
    page_id,            \* credentials.page_id
    instagram_user_id,  \* credentials.instagram_user_id
    share_to_facebook,  \* metadata.share_to_facebook
    fb_result,          \* what upload_to_platform gets back from upload_to_facebook
    posts,              \* POSTs to /{page_id}/videos so far
    ig_result,          \* what upload_to_platform gets back from upload_to_instagram
    container_id,       \* what _create_instagram_container returned
    attempt,            \* the loop variable of _wait_for_container_ready
    creates,            \* POSTs to /{instagram_user_id}/media so far
    cross_post_param,   \* collaborate_with_sharing_on_facebook was in the creation request
    polls,              \* GETs of the container status so far
    waits,              \* calls of asyncio.sleep(POLL_INTERVAL) so far
    pending,            \* polls so far that observed no terminal status
    last_status,        \* status_code of the last poll, "" before the first
    finished,           \* some poll observed FINISHED
    publishes,          \* POSTs to /{instagram_user_id}/media_publish so far
    publish_response,   \* how the publish request ended, "none" before
    log                 \* the messages the uploader handed to its logger

meta_vars == <<meta_pc, page_id, instagram_user_id, share_to_facebook, fb_result, posts,
               ig_result, container_id, attempt, creates, cross_post_param, polls, waits,
               pending, last_status, finished, publishes, publish_response, log>>

(***************************************************************************)
(* State of one call of platforms/tiktok.py upload_video.                  *)
(***************************************************************************)
VARIABLES
    tt_pc,                \* the step upload_video is about to take, "idle", "done"
    caption,              \* metadata.caption
    screenshot_on_error,  \* the screenshot_on_error argument
    selector,             \* index of the selector a selector loop is at
    browser,              \* "none", "open", "closed"
    steps,                \* the steps executed so far, in order
    exhausted,            \* the steps that failed or ran out of their wait
    screenshots,          \* calls of page.screenshot so far
    caption_fill,         \* how _fill_caption ended: "not run", "typed", "no element", "raised"
    tt_result             \* what upload_to_platform gets back for the call

tt_vars == <<tt_pc, caption, screenshot_on_error, selector, browser, steps, exhausted,
             screenshots, caption_fill, tt_result>>

\* the state of the uploader calls that are followed on their own
uploader_vars == <<yt_vars, meta_vars, tt_vars>>

(***************************************************************************)
(* State of the event loop of the process when it runs several jobs        *)
(* (process_publish_request tasks) at once.                                *)
(***************************************************************************)
VARIABLES
    loop_pc,        \* where each job is
    loop_platform,  \* the one platform of each job: "youtube" or "tiktok"
    tmp_dirs,       \* tmp_dir of each job: the name mkdtemp gave it, 0 before
    owner,          \* for each directory name the job whose TemporaryDirectory it is, 0 if none
    files,          \* for each path that exists the job that wrote it last
    foreign,        \* accesses a job made to a directory that was not its own
    overwrites,     \* writes of a job to a file another job had written
    client,         \* the value cached by _get_client: 0 before the first call
    created,        \* SecretManagerServiceClient() constructions so far
    handles,        \* the client each job got from _get_client, 0 before
    blocked,        \* the job that holds the thread in a call that does not await, 0 if none
    tries           \* calls of next_chunk each job made

loop_vars == <<loop_pc, loop_platform, tmp_dirs, owner, files, foreign, overwrites,
               client, created, handles, blocked, tries>>

(***************************************************************************)
(* State of one call of utils/secrets.py build_secret_name, its strings    *)
(* spelled out character by character.                                     *)
(***************************************************************************)
VARIABLES
    name_args,    \* <<channel_id, platform, key_type>>
    built_name    \* what build_secret_name returned, <<>> before

name_vars == <<name_args, built_name>>

\* what the job and the uploader calls leave alone
aux_vars == <<loop_vars, name_vars>>

vars == <<job_vars, uploader_vars, loop_vars, name_vars>>

NoResult == Result("", "", <<>>, NoId, NoCode)

\* how the uploader call of attempt n ended: the dict it returned, or the exception it raised
Ended(n, outcome) ==
    [attempt |-> n,
     raises |-> outcome.raises,
     returned |-> IF outcome.raises THEN NoResult ELSE outcome.value,
     exception |-> IF outcome.raises THEN outcome.value ELSE <<>>]

\* the sequences over S of length at most n
SeqUpTo(S, n) == UNION { [1..m -> S] : m \in 0..n }

\* no upload_video call is followed
YouTubeIdle ==
    /\ yt_pc = "idle"
    /\ chunks = 0
    /\ sent = 0
    /\ retry = 0
    /\ yt_result = NoResult
    /\ calls = 0
    /\ sleeps = 0
    /\ last_sleep = [n |-> 0, q |-> 0]
    /\ streak = 0
    /\ worst = 0
    /\ bursts = 0
    /\ fatal = 0

\* None where the source has a string or None
NullId == "<None>"

\* the result dict of upload_to_instagram: media_id and cross_posted_to_facebook are keys
\* of the success dict only, message and error_code of the error dicts only
InstagramResult(status, message, media_id, error_code, cross_posted_to_facebook) ==
    [platform |-> "instagram", status |-> status, message |-> message,
     media_id |-> media_id, error_code |-> error_code,
     cross_posted_to_facebook |-> cross_posted_to_facebook]

NoInstagramResult == [InstagramResult("", <<>>, NoId, NoCode, FALSE) EXCEPT !.platform = ""]

MetaIdle ==
    /\ meta_pc = "idle"
    /\ page_id = NullId
    /\ instagram_user_id = NullId
    /\ share_to_facebook = TRUE
    /\ fb_result = NoResult
    /\ posts = 0
    /\ ig_result = NoInstagramResult
    /\ container_id = NullId
    /\ attempt = 0
    /\ creates = 0
    /\ cross_post_param = FALSE
    /\ polls = 0
    /\ waits = 0
    /\ pending = 0
    /\ last_status = ""
    /\ finished = FALSE
    /\ publishes = 0
    /\ publish_response = "none"
    /\ log = {}

TikTokIdle ==
    /\ tt_pc = "idle"
    /\ caption = ""
    /\ screenshot_on_error = TRUE
    /\ selector = 0
    /\ browser = "none"
    /\ steps = <<>>
    /\ exhausted = {}
    /\ screenshots = 0
    /\ caption_fill = "not run"
    /\ tt_result = NoResult

UploadersIdle == YouTubeIdle /\ MetaIdle /\ TikTokIdle

\* most jobs the process runs at once
MaxJobs == 2

Jobs == 1..MaxJobs

\* the names mkdtemp can give a directory
Dirs == 1..MaxJobs

\* only one job is followed: the event loop runs nothing else
LoopIdle ==
    /\ loop_pc = [j \in Jobs |-> "idle"]
    /\ loop_platform = [j \in Jobs |-> ""]
    /\ tmp_dirs = [j \in Jobs |-> 0]
    /\ owner = [d \in Dirs |-> 0]
    /\ files = {}
    /\ foreign = {}
    /\ overwrites = {}
    /\ client = 0
    /\ created = 0
    /\ handles = [j \in Jobs |-> 0]
    /\ blocked = 0
    /\ tries = [j \in Jobs |-> 0]

\* build_secret_name is not followed on its own
NameIdle ==
    /\ name_args = <<<<>>, <<>>, <<>>>>
    /\ built_name = <<>>

AuxIdle == LoopIdle /\ NameIdle

Init ==
    /\ platforms \in SeqUpTo(Platform, MaxPlatforms)
    /\ dry_run \in BOOLEAN
    /\ \E missing \in SUBSET AllSecretNames :
          /\ Cardinality(missing) <= MaxMissing
          /\ store = AllSecretNames \ missing
    /\ pc = "received"
    /\ response = "none"
    /\ tmp_dir = "none"
    /\ video_file = "absent"
    /\ i = 1
    /\ k = 1
    /\ result = NoResult
    /\ results = <<>>
    /\ retval = <<>>
    /\ leaving = ""
    /\ download = "not run"
    /\ downloads = 0
    /\ cleanups = 0
    /\ started = 0
    /\ resolved = {}
    /\ invoked = {}
    /\ outcomes = {}
    /\ job_id = "none"
    /\ UploadersIdle
    /\ AuxIdle

(***************************************************************************)
(* utils/secrets.py                                                        *)
(***************************************************************************)
\* a mutation of get_secret: a missing secret reads as an empty value
get_secret_default(secret_name) ==
    Returns(IF secret_name \in store THEN <<"value">> ELSE <<>>)

\* client.access_secret_version: the value, or NotFound
get_secret(secret_name) ==
    IF secret_name \in store
        THEN Returns(<<"value">>)
        ELSE Raises(NotFound(secret_name))

get_channel_secret(channel, platform, key_type) ==
    get_secret(build_secret_name(channel, platform, key_type))

\* a mutation of secret_exists: the lookup is not made
secret_exists_unchecked(secret_name) == TRUE

\* try: get_secret(secret_name); return True / except Exception: return False
secret_exists(secret_name) == ~get_secret(secret_name).raises

\* the required_keys table of validate_channel_secrets
required_keys(platform) ==
    CASE platform = "youtube" -> <<"client_id", "client_secret", "refresh_token">>
      [] platform = "tiktok" -> <<"session_cookie">>
      [] platform = "facebook" -> <<"access_token", "page_id">>
      [] platform = "instagram" -> <<"access_token", "user_id">>

\* the dict validate_channel_secrets returns: for each platform of the list, whether
\* every key of its row exists (the loop breaks at the first that does not)
validate_channel_secrets(channel, names) ==
    [ platform \in { names[n] : n \in 1..Len(names) } |->
        \A n \in 1..Len(required_keys(platform)) :
            secret_exists(build_secret_name(channel, platform, required_keys(platform)[n])) ]

\* all(validation_result.values()) of the /validate handler
validate_all_valid(validation_result) ==
    \A platform \in DOMAIN validation_result : validation_result[platform]

(***************************************************************************)
(* POST /publish                                                           *)
(***************************************************************************)
\* dry run: the handler awaits process_publish_request(request, dry_run=True)
PublishDryRun ==
    /\ pc = "received"
    /\ dry_run
    /\ pc' = "enter"
    /\ UNCHANGED <<platforms, dry_run, store, response, tmp_dir, video_file, i, k,
                   result, results, retval, leaving, download, downloads, cleanups, started,
                   resolved, invoked,
                   job_id, outcomes, uploader_vars, aux_vars>>

\* a mutation of PublishBackground: the job is scheduled and nothing is answered
PublishBackground_no_answer ==
    /\ pc = "received"
    /\ ~dry_run
    /\ pc' = "enter"
    /\ UNCHANGED <<platforms, dry_run, store, response, tmp_dir, video_file, i, k, result,
                   results, retval, leaving, download, downloads, cleanups, started, resolved,
                   invoked, job_id, outcomes, uploader_vars, aux_vars>>

\* otherwise: background_tasks.add_task(...) and the answer "accepted", job_id=None
PublishBackground ==
    /\ pc = "received"
    /\ ~dry_run
    /\ response' = "accepted"
    /\ job_id' = NullId
    /\ pc' = "enter"
    /\ UNCHANGED <<platforms, dry_run, store, tmp_dir, video_file, i, k, result,
                   results, retval, leaving, download, downloads, cleanups, started, resolved,
                   invoked,
                   outcomes, uploader_vars, aux_vars>>

(***************************************************************************)
(* process_publish_request                                                 *)
(***************************************************************************)
\* a mutation of EnterTempDir: the download does not look at dry_run
EnterTempDir_always_download ==
    /\ pc = "enter"
    /\ tmp_dir' = "exists"
    /\ pc' = "download"
    /\ UNCHANGED <<platforms, dry_run, store, response, video_file, i, k, result,
                   results, retval, leaving, download, downloads, cleanups, started, resolved,
                   invoked,
                   job_id, outcomes, uploader_vars, aux_vars>>

\* a mutation of EnterTempDir: the download is left to whoever needs the file
EnterTempDir_no_download ==
    /\ pc = "enter"
    /\ tmp_dir' = "exists"
    /\ pc' = "loop"
    /\ UNCHANGED <<platforms, dry_run, store, response, video_file, i, k, result,
                   results, retval, leaving, download, downloads, cleanups, started,
                   resolved, invoked,
                   job_id, outcomes, uploader_vars, aux_vars>>

\* with tempfile.TemporaryDirectory() as tmp_dir: ... if not dry_run:
EnterTempDir ==
    /\ pc = "enter"
    /\ tmp_dir' = "exists"
    /\ pc' = IF dry_run THEN "loop" ELSE "download"
    /\ UNCHANGED <<platforms, dry_run, store, response, video_file, i, k, result,
                   results, retval, leaving, download, downloads, cleanups, started, resolved,
                   invoked,
                   job_id, outcomes, uploader_vars, aux_vars>>

\* await download_from_url(...) returns: the file is written
DownloadOk ==
    /\ pc = "download"
    /\ downloads' = downloads + 1
    /\ download' = "ok"
    /\ video_file' = "complete"
    /\ pc' = "loop"
    /\ UNCHANGED <<platforms, dry_run, store, response, tmp_dir, i, k, result,
                   results, retval, leaving, cleanups, started, resolved, invoked,
                   job_id, outcomes, uploader_vars, aux_vars>>

\* download_from_url raises, before the file is opened or while it is written;
\* then control goes to `next`, leaving the with block as `how`
DownloadRaises(next, how) ==
    /\ pc = "download"
    /\ downloads' = downloads + 1
    /\ download' = "failed"
    /\ video_file' \in {"absent", "partial"}
    /\ retval' = IF how = "return" THEN DownloadFailedResult ELSE retval
    /\ leaving' = how
    /\ pc' = next
    /\ UNCHANGED <<platforms, dry_run, store, response, tmp_dir, i, k, result,
                   results, cleanups, started, resolved, invoked,
                   job_id, outcomes, uploader_vars, aux_vars>>

\* a mutation of DownloadFailed: the except branch logs and does not return
DownloadFailed_swallowed == DownloadRaises("loop", "")

\* a mutation of DownloadFailed: the early return leaves the directory behind
DownloadFailed_no_cleanup == DownloadRaises("done", "return")

\* except Exception as e: return [{"platform": "all", ...}], out of the with block
DownloadFailed == DownloadRaises("cleanup", "return")

\* a mutation of StartAttempt: every attempt is created at once (a fan-out)
StartAttempt_fan_out ==
    /\ pc = "loop"
    /\ i <= Len(platforms)
    /\ started' = Len(platforms)
    /\ k' = 1
    /\ pc' = "resolve"
    /\ UNCHANGED <<platforms, dry_run, store, response, tmp_dir, video_file, i,
                   result, results, retval, leaving, download, downloads, cleanups, resolved,
                   invoked,
                   job_id, outcomes, uploader_vars, aux_vars>>

\* for platform in request.platforms: result = await upload_to_platform(...)
StartAttempt ==
    /\ pc = "loop"
    /\ i <= Len(platforms)
    /\ started' = started + 1
    /\ k' = 1
    /\ pc' = "resolve"
    /\ UNCHANGED <<platforms, dry_run, store, response, tmp_dir, video_file, i,
                   result, results, retval, leaving, download, downloads, cleanups, resolved,
                   invoked,
                   job_id, outcomes, uploader_vars, aux_vars>>

\* the loop is over: the summary, and the end of the with block
LoopExit ==
    /\ pc = "loop"
    /\ i > Len(platforms)
    /\ leaving' = "end"
    /\ pc' = "cleanup"
    /\ UNCHANGED <<platforms, dry_run, store, response, tmp_dir, video_file, i, k,
                   result, results, retval, download, downloads, cleanups, started, resolved,
                   invoked,
                   job_id, outcomes, uploader_vars, aux_vars>>

(***************************************************************************)
(* upload_to_platform, one step per get_channel_secret call and one for    *)
(* the uploader call.                                                      *)
(***************************************************************************)
\* the next get_channel_secret call inside the try of the platform's branch
Resolve ==
    /\ pc = "resolve"
    /\ LET platform == platforms[i]
           key_type == RequiredKeys(platform)[k]
           secret == get_channel_secret(channel_id, platform, key_type)
       IN  /\ resolved' = resolved \cup
                            {<<i, build_secret_name(channel_id, platform, key_type)>>}
           /\ IF secret.raises
                THEN \* except Exception as e
                     /\ result' = ExceptionResult(platform, secret.value)
                     /\ pc' = "log"
                     /\ k' = k
                ELSE IF k < Len(RequiredKeys(platform))
                THEN /\ k' = k + 1
                     /\ pc' = "resolve"
                     /\ result' = result
                ELSE IF dry_run
                THEN \* if dry_run: return {... "validated" ...}
                     /\ result' = ValidatedResult(platform)
                     /\ pc' = "log"
                     /\ k' = k
                ELSE /\ pc' = "invoke"
                     /\ result' = result
                     /\ k' = k
    /\ UNCHANGED <<platforms, dry_run, store, response, tmp_dir, video_file, i,
                   results, retval, leaving, download, downloads, cleanups, started, invoked,
                   job_id, outcomes, uploader_vars, aux_vars>>

\* return await <uploader>(...), an exception of it caught by the branch's except
Invoke ==
    /\ pc = "invoke"
    /\ LET platform == platforms[i]
       IN  /\ invoked' = invoked \cup {<<i, platform>>}
           /\ \E outcome \in Uploader(platform) :
                 /\ outcomes' = outcomes \cup {Ended(i, outcome)}
                 /\ result' = IF outcome.raises
                                THEN ExceptionResult(platform, outcome.value)
                                ELSE outcome.value
    /\ pc' = "log"
    /\ UNCHANGED <<platforms, dry_run, store, response, tmp_dir, video_file, i, k,
                   results, retval, leaving, download, downloads, cleanups, started, resolved,
                   job_id, uploader_vars, aux_vars>>

(***************************************************************************)
(* process_publish_request, after upload_to_platform returned              *)
(***************************************************************************)
\* result.get("message", "Unknown error")[:100] is evaluated, and fails on None
LogSlices == result.status \notin {"success", "validated"}

\* the result is logged and results.append(result)
LogAppend ==
    /\ pc = "log"
    /\ ~(LogSlices /\ result.message = None)
    /\ results' = Append(results, result)
    /\ i' = i + 1
    /\ pc' = "loop"
    /\ UNCHANGED <<platforms, dry_run, store, response, tmp_dir, video_file, k,
                   result, retval, leaving, download, downloads, cleanups, started, resolved,
                   invoked,
                   job_id, outcomes, uploader_vars, aux_vars>>

\* the slice of a message that is None raises TypeError out of the loop
LogRaises ==
    /\ pc = "log"
    /\ LogSlices /\ result.message = None
    /\ leaving' = "raise"
    /\ pc' = "cleanup"
    /\ UNCHANGED <<platforms, dry_run, store, response, tmp_dir, video_file, i, k,
                   result, results, retval, download, downloads, cleanups, started, resolved,
                   invoked,
                   job_id, outcomes, uploader_vars, aux_vars>>

\* TemporaryDirectory.__exit__: the directory and the file in it are removed;
\* a return or an exception that left the block then completes
Cleanup ==
    /\ pc = "cleanup"
    /\ tmp_dir' = "removed"
    /\ video_file' = "absent"
    /\ cleanups' = cleanups + 1
    /\ pc' = CASE leaving = "return" -> "done"
               [] leaving = "raise" -> "failed"
               [] OTHER -> "return"
    /\ UNCHANGED <<platforms, dry_run, store, response, i, k, result, results,
                   retval, leaving, download, downloads, started, resolved, invoked,
                   job_id, outcomes, uploader_vars, aux_vars>>

\* return results
ReturnResults ==
    /\ pc = "return"
    /\ retval' = results
    /\ pc' = "done"
    /\ UNCHANGED <<platforms, dry_run, store, response, tmp_dir, video_file, i, k,
                   result, results, leaving, download, downloads, cleanups, started, resolved,
                   invoked,
                   job_id, outcomes, uploader_vars, aux_vars>>

(***************************************************************************)
(* POST /publish, dry run: the answer after the awaited job                *)
(***************************************************************************)
\* a mutation of all_valid: a list without results is not valid
all_valid_some ==
    /\ Len(retval) > 0
    /\ \A n \in 1..Len(retval) : retval[n].status = "validated"

all_valid == \A n \in 1..Len(retval) : retval[n].status = "validated"

\* a mutation of success_count: every result is counted
success_count_all(rs) == Len(rs)

\* success_count = sum(1 for r in results if r.get("status") == "success")
success_count(rs) == Cardinality({ n \in 1..Len(rs) : rs[n].status = "success" })

RespondDryRun ==
    /\ pc = "done"
    /\ dry_run
    /\ response = "none"
    /\ response' = IF all_valid THEN "validated" ELSE "error"
    /\ job_id' = NullId
    /\ UNCHANGED <<platforms, dry_run, store, pc, tmp_dir, video_file, i, k, result,
                   results, retval, leaving, download, downloads, cleanups, started, resolved,
                   invoked,
                   outcomes, uploader_vars, aux_vars>>

Next ==
    \/ PublishDryRun
    \/ PublishBackground
    \/ EnterTempDir
    \/ DownloadOk
    \/ DownloadFailed
    \/ StartAttempt
    \/ LoopExit
    \/ Resolve
    \/ Invoke
    \/ LogAppend
    \/ LogRaises
    \/ Cleanup
    \/ ReturnResults
    \/ RespondDryRun

Spec == Init /\ [][Next]_vars

(***************************************************************************)
(* Vocabulary of the properties.                                           *)
(***************************************************************************)
\* the required key set of each platform, as the table of required_keys states it
RequiredKeySet(platform) ==
    CASE platform = "youtube" -> {"client_id", "client_secret", "refresh_token"}
      [] platform = "tiktok" -> {"session_cookie"}
      [] platform = "facebook" -> {"access_token", "page_id"}
      [] platform = "instagram" -> {"access_token", "user_id"}

\* the secret names of a platform's required key set
RequiredNames(platform) ==
    { build_secret_name(channel_id, platform, key) : key \in RequiredKeySet(platform) }

\* every key of the platform's required key set is in the store
KeysResolve(platform) == RequiredNames(platform) \subseteq store

\* the messages a failed resolution of the platform's keys can carry
ResolutionFailures(platform) ==
    { NotFound(name) : name \in RequiredNames(platform) \ store }

\* the job is over: process_publish_request returned, or raised
JobOver == pc \in {"done", "failed"}

\* the uploader variants that read the local file
LocalFilePlatforms == {"youtube", "tiktok"}

\* the uploader variants that are handed the public URL
RemoteUrlPlatforms == {"facebook", "instagram"}

C2_FailureNeverStopsLoop ==
    (JobOver /\ download # "failed") =>
        /\ started = Len(platforms)
        /\ Len(results) = Len(platforms)
        /\ pc = "done"

\* C3: when the download of a real job with at least one platform fails, no
\* credential is resolved, no attempt starts, no uploader is called, and the job
\* returns exactly [{platform "all", status error}].
C3_DownloadFailureShortCircuits ==
    (~dry_run /\ Len(platforms) >= 1 /\ download = "failed") =>
        /\ started = 0
        /\ resolved = {}
        /\ invoked = {}
        /\ results = <<>>
        /\ pc \in {"cleanup", "done"}
        /\ pc = "done" =>
              /\ Len(retval) = 1
              /\ retval[1].platform = "all"
              /\ retval[1].status = "error"

\* C3 witness: a real job for two platforms returned after its download failed
C3_Witness ==
    /\ ~dry_run
    /\ Len(platforms) = 2
    /\ download = "failed"
    /\ pc = "done"
    /\ retval = DownloadFailedResult

\* C4: the temporary download location is removed exactly once on every way out of
\* process_publish_request, and is gone when the function returns or raises.
C4_ReleasedExactlyOnce ==
    /\ cleanups <= 1
    /\ JobOver => /\ cleanups = 1
                  /\ tmp_dir = "removed"
                  /\ video_file = "absent"
    /\ pc = "return" => cleanups = 1 /\ tmp_dir = "removed"
    /\ tmp_dir = "exists" => cleanups = 0

\* C4 witness: the download failed half way and the job returned, the directory removed
C4_Witness ==
    /\ pc = "done"
    /\ download = "failed"
    /\ cleanups = 1
    /\ tmp_dir = "removed"

\* C5: a dry run never calls the download, never has a local copy of the video,
\* never calls an uploader; attempt n only looks up secrets of platform n's key set.
C5_DryRunOnlyResolves ==
    dry_run =>
        /\ downloads = 0
        /\ download = "not run"
        /\ video_file = "absent"
        /\ invoked = {}
        /\ pc \notin {"download", "invoke"}
        /\ \A r \in resolved : r[2] \in RequiredNames(platforms[r[1]])

\* C5 witness: a dry run over two platforms is over and has looked secrets up for both
C5_Witness ==
    /\ dry_run
    /\ pc = "done"
    /\ Len(platforms) = 2
    /\ \E r1, r2 \in resolved : r1[1] = 1 /\ r2[1] = 2

\* C6: in a dry run, platform n's result is validated exactly when every key of its
\* required key set resolves, otherwise error with the failure of a missing key;
\* allValid, and with it the answer "validated", holds exactly when every requested
\* platform's key set resolves.
C6_DryRunValidatedIffKeysResolve ==
    (dry_run /\ pc = "done") =>
        /\ Len(retval) = Len(platforms)
        /\ \A n \in 1..Len(platforms) :
              /\ retval[n].status = "validated" <=> KeysResolve(platforms[n])
              /\ ~KeysResolve(platforms[n]) =>
                    /\ retval[n].status = "error"
                    /\ retval[n].message \in ResolutionFailures(platforms[n])
        /\ all_valid <=> \A n \in 1..Len(platforms) : KeysResolve(platforms[n])
        /\ response # "none" => (response = "validated" <=> all_valid)

\* C6 witness: the dry run for [tiktok] without the session cookie secret
C6_Witness ==
    /\ dry_run
    /\ platforms = <<"tiktok">>
    /\ build_secret_name(channel_id, "tiktok", "session_cookie") \notin store
    /\ pc = "done"
    /\ Len(retval) = 1
    /\ retval[1].platform = "tiktok"
    /\ retval[1].status = "error"
    /\ response = "error"

\* C7: in a real job that requests a local-file platform the download is called once,
\* and it has returned, the file complete, before the first attempt starts, the first
\* secret is looked up or the first uploader is called.
C7_DownloadOnceBeforeAttempts ==
    (~dry_run /\ \E n \in 1..Len(platforms) : platforms[n] \in LocalFilePlatforms) =>
        /\ downloads <= 1
        /\ (started > 0 \/ resolved # {} \/ invoked # {}) =>
              /\ downloads = 1
              /\ download = "ok"
        /\ pc \in {"resolve", "invoke", "log"} => video_file = "complete"
        /\ JobOver => downloads = 1

\* C7 witness: the youtube uploader has been called, after the one download
C7_Witness ==
    /\ ~dry_run
    /\ \E n \in 1..Len(platforms) : <<n, "youtube">> \in invoked
    /\ downloads = 1
    /\ download = "ok"

\* C8: a real job whose platforms are all remote-URL variants never downloads the
\* video, and a download failure cannot abort it.
C8_RemoteOnlyNeverDownloads ==
    (/\ ~dry_run
     /\ Len(platforms) >= 1
     /\ \A n \in 1..Len(platforms) : platforms[n] \in RemoteUrlPlatforms) =>
        /\ downloads = 0
        /\ download = "not run"
        /\ video_file = "absent"

\* C9: platforms are processed one after the other in request order: at most one
\* attempt is unfinished, it is the attempt of platform i, and it started after the
\* results of platforms 1..i-1 were appended.
C9_StrictlySequential ==
    /\ started - Len(results) \in {0, 1}
    /\ pc \in {"resolve", "invoke", "log"} =>
          /\ started = i
          /\ Len(results) = i - 1
    /\ pc = "loop" => started = Len(results) /\ i = Len(results) + 1

\* C9 witness: the second platform's uploader is about to be called, one result appended
C9_Witness ==
    /\ pc = "invoke"
    /\ i = 2
    /\ started = 2
    /\ Len(results) = 1

\* C10: in a real job a platform with a required secret missing never has its
\* uploader called, gets an error result carrying the failed lookup, and the job goes
\* on: it does not end before the next platform's attempt has started.
C10_MissingSecretIsPlatformError ==
    ~dry_run =>
        \A n \in 1..Len(platforms) :
            ~KeysResolve(platforms[n]) =>
                /\ <<n, platforms[n]>> \notin invoked
                /\ Len(results) >= n =>
                      /\ results[n].platform = platforms[n]
                      /\ results[n].status = "error"
                      /\ results[n].message \in ResolutionFailures(platforms[n])
                /\ (JobOver /\ started >= n) =>
                      /\ Len(results) >= n
                      /\ n < Len(platforms) => started >= n + 1

\* C10 witness: the first platform lacked a secret, and the second one's uploader ran
C10_Witness ==
    /\ ~dry_run
    /\ pc = "done"
    /\ Len(platforms) >= 2
    /\ ~KeysResolve(platforms[1])
    /\ retval[1].status = "error"
    /\ <<2, platforms[2]>> \in invoked

(***************************************************************************)
(* The job at the moment upload_to_platform calls the uploader of its      *)
(* first platform: the download is done and the secrets are resolved.      *)
(***************************************************************************)
JobAtInvoke(platform) ==
    /\ platforms = <<platform>>
    /\ dry_run = FALSE
    /\ store = AllSecretNames
    /\ pc = "invoke"
    /\ response = "accepted"
    /\ tmp_dir = "exists"
    /\ video_file = "complete"
    /\ i = 1
    /\ k = Len(RequiredKeys(platform))
    /\ result = NoResult
    /\ results = <<>>
    /\ retval = <<>>
    /\ leaving = ""
    /\ download = "ok"
    /\ downloads = 1
    /\ cleanups = 0
    /\ started = 1
    /\ resolved = { <<1, build_secret_name(channel_id, platform, RequiredKeys(platform)[n])>> :
                      n \in 1..Len(RequiredKeys(platform)) }
    /\ invoked = {}
    /\ outcomes = {}
    /\ job_id = NullId

(***************************************************************************)
(* platforms/youtube.py: upload_video and _resumable_upload                *)
(***************************************************************************)
\* most chunks a file has
MaxChunks == 11
\* random.random() is r / RandDen for some r in 0..RandDen-1
RandDen == 4

MAX_RETRIES == 10
RETRIABLE_STATUS_CODES == {500, 502, 503, 504}

\* the statuses an HttpError of next_chunk carries here
HttpErrorStatuses == RETRIABLE_STATUS_CODES \cup {400, 403}


RetriesExhaustedMessage == <<"Upload failed after 10 retries">>

\* a mutation of IsRetriable: every HttpError is retried
IsRetriable_any(status) == status >= 400

\* if e.resp.status in RETRIABLE_STATUS_CODES
IsRetriable(status) == status \in RETRIABLE_STATUS_CODES

\* a mutation of RetriesExhausted: the comparison is off by one
RetriesExhausted_off_by_one(n) == n >= MAX_RETRIES

\* if retry > MAX_RETRIES: raise Exception(...)
RetriesExhausted(n) == n > MAX_RETRIES

\* a mutation of sleep_seconds: the exponent is one too high
sleep_seconds_next_power(r, n) == r * (2 ^ (n + 1))

\* random.random() * (2**retry), in units of 1 / RandDen seconds, for random() = r / RandDen
sleep_seconds(r, n) == r * (2 ^ n)

\* return {"platform": "youtube", "status": "success", "video_id": video_id, ...}
YouTubeSuccess(video_id) == Result("youtube", "success", <<>>, video_id, NoCode)

\* except HttpError as e: return {..., "status": "error", "message": str(e), "error_code": e.resp.status}
YouTubeHttpError(status) == Result("youtube", "error", <<"HttpError">>, NoId, status)

InitYouTube ==
    /\ JobAtInvoke("youtube")
    /\ MetaIdle
    /\ TikTokIdle
    /\ AuxIdle
    /\ yt_pc = "chunk"
    /\ chunks \in 1..MaxChunks
    /\ sent = 0
    /\ retry = 0
    /\ yt_result = NoResult
    /\ calls = 0
    /\ sleeps = 0
    /\ last_sleep = [n |-> 0, q |-> 0]
    /\ streak = 0
    /\ worst = 0
    /\ bursts = 0
    /\ fatal = 0

\* error is not None: retry += 1, then the raise or the way to the backoff
TransientFailure ==
    /\ retry' = retry + 1
    /\ streak' = streak + 1
    /\ worst' = IF streak + 1 > worst THEN streak + 1 ELSE worst
    /\ bursts' = IF streak = 0 THEN bursts + 1 ELSE bursts
    /\ IF RetriesExhausted(retry + 1)
         THEN \* the Exception leaves upload_video and is caught by upload_to_platform
              /\ yt_result' = ExceptionResult("youtube", RetriesExhaustedMessage)
              /\ yt_pc' = "done"
         ELSE /\ yt_result' = yt_result
              /\ yt_pc' = "backoff"

\* a mutation of NextChunkOk: a chunk that was taken starts the retry count anew
NextChunkOk_resets_retry ==
    /\ yt_pc = "chunk"
    /\ calls' = calls + 1
    /\ sent' = sent + 1
    /\ streak' = 0
    /\ retry' = 0
    /\ IF sent + 1 = chunks
         THEN /\ \E video_id \in {"abc123", NullId} : yt_result' = YouTubeSuccess(video_id)
              /\ yt_pc' = "done"
         ELSE /\ yt_result' = yt_result
              /\ yt_pc' = "chunk"
    /\ UNCHANGED <<chunks, sleeps, last_sleep, worst, bursts, fatal, job_vars, meta_vars, tt_vars, aux_vars>>

\* status, response = insert_request.next_chunk() returns
NextChunkOk ==
    /\ yt_pc = "chunk"
    /\ calls' = calls + 1
    /\ sent' = sent + 1
    /\ streak' = 0
    /\ IF sent + 1 = chunks
         THEN \* response is not None: the loop ends and upload_video returns success
              /\ \E video_id \in {"abc123", NullId} : yt_result' = YouTubeSuccess(video_id)
              /\ yt_pc' = "done"
         ELSE /\ yt_result' = yt_result
              /\ yt_pc' = "chunk"
    /\ UNCHANGED <<chunks, retry, sleeps, last_sleep, worst, bursts, fatal, job_vars, meta_vars, tt_vars, aux_vars>>

\* next_chunk raises HttpError
NextChunkHttpError ==
    /\ yt_pc = "chunk"
    /\ calls' = calls + 1
    /\ \E status \in HttpErrorStatuses :
          /\ fatal' = IF status \in RETRIABLE_STATUS_CODES THEN fatal ELSE status
          /\ IF IsRetriable(status)
               THEN TransientFailure
               ELSE \* raise, caught by the except HttpError of upload_video
                    /\ yt_result' = YouTubeHttpError(status)
                    /\ yt_pc' = "done"
                    /\ UNCHANGED <<retry, streak, worst, bursts>>
    /\ UNCHANGED <<chunks, sent, sleeps, last_sleep, job_vars, meta_vars, tt_vars, aux_vars>>

\* next_chunk raises one of RETRIABLE_EXCEPTIONS
NextChunkTransportError ==
    /\ yt_pc = "chunk"
    /\ calls' = calls + 1
    /\ TransientFailure
    /\ UNCHANGED <<chunks, sent, sleeps, last_sleep, fatal, job_vars, meta_vars, tt_vars, aux_vars>>

\* sleep_seconds = random.random() * (2**retry); time.sleep(sleep_seconds); error = None
Backoff ==
    /\ yt_pc = "backoff"
    /\ \E r \in 0..(RandDen - 1) :
          last_sleep' = [n |-> retry, q |-> sleep_seconds(r, retry)]
    /\ sleeps' = sleeps + 1
    /\ yt_pc' = "chunk"
    /\ UNCHANGED <<chunks, sent, retry, yt_result, calls, streak, worst, bursts, fatal,
                   job_vars, meta_vars, tt_vars, aux_vars>>

NextYouTube ==
    \/ NextChunkOk
    \/ NextChunkHttpError
    \/ NextChunkTransportError
    \/ Backoff

SpecYouTube == InitYouTube /\ [][NextYouTube]_vars

C12_NonRetriableFailsAtOnce ==
    fatal # 0 =>
        /\ yt_pc = "done"
        /\ yt_result.platform = "youtube"
        /\ yt_result.status = "error"
        /\ yt_result.message # <<>>
        /\ yt_result.error_code = fatal
        /\ calls = sent + retry + 1
        /\ sleeps = retry

\* C12 witness: a 403 on the second chunk, after two transient failures
C12_Witness ==
    /\ fatal = 403
    /\ sent = 1
    /\ retry = 2
    /\ sleeps = 2
    /\ yt_pc = "done"
    /\ yt_result.error_code = 403

\* C13: the pause before the n-th retry is random() * 2^n, at least 0 and below 2^n
\* seconds, for n in 1..MAX_RETRIES; a call pauses at most MAX_RETRIES times and the
\* (MAX_RETRIES+1)-th transient failure ends it without a pause.
C13_BackoffArithmetic ==
    /\ sleeps <= MAX_RETRIES
    /\ sleeps > 0 =>
          /\ last_sleep.n = sleeps
          /\ last_sleep.n \in 1..MAX_RETRIES
          /\ last_sleep.q >= 0
          /\ last_sleep.q < RandDen * (2 ^ last_sleep.n)
    /\ yt_pc = "backoff" => retry \in 1..MAX_RETRIES /\ sleeps = retry - 1
    /\ retry = MAX_RETRIES + 1 =>
          /\ yt_pc = "done"
          /\ sleeps = MAX_RETRIES
    /\ retry <= MAX_RETRIES + 1

\* C13 witness: the call ended on failure MAX_RETRIES+1, its last pause before retry MAX_RETRIES
C13_Witness ==
    /\ retry = MAX_RETRIES + 1
    /\ yt_pc = "done"
    /\ sleeps = MAX_RETRIES
    /\ last_sleep.n = MAX_RETRIES
    /\ last_sleep.q = (RandDen - 1) * (2 ^ MAX_RETRIES)

(***************************************************************************)
(* platforms/meta.py: upload_to_facebook and upload_to_instagram           *)
(***************************************************************************)
MAX_POLL_ATTEMPTS == 120

\* the values credentials.page_id and credentials.instagram_user_id are given
OptionalIds == {NullId, "", "1234"}

\* status_code of the container: result.get("status_code") is None without the field
StatusCodes == {"IN_PROGRESS", "FINISHED", "ERROR", "EXPIRED", "PUBLISHED", NullId}

\* the statuses that end the polling
TerminalStatusCodes == {"FINISHED", "ERROR", "EXPIRED"}

\* the statuses raise_for_status raises HTTPStatusError for
MetaHttpStatuses == {400, 500}

\* the body of an error response: no content, {"error": {"message": "..."}},
\* {"error": {"message": null}}, or content that is not JSON
ErrorBodies == {"empty", "message", "null message", "not json"}

HTTPStatusErrorText == <<"Client error for url">>
JSONDecodeErrorText == <<"Expecting value: line 1 column 1 (char 0)">>
ConnectErrorText == <<"All connection attempts failed">>
GraphApiMessage == <<"(#100) Invalid parameter">>

\* not x, of a string or None
Truthy_not_none(x) == x # NullId

Truthy(x) == x \notin {NullId, ""}

\* x is not None
IsNotNone(x) == x # NullId

HasContainer_always(id) == TRUE

\* not (not container_id)
HasContainer(id) == Truthy(id)

IsFinished_never(status_code) == FALSE

IsFinished(status_code) == status_code = "FINISHED"

IsFailed_error_only(status_code) == status_code = "ERROR"

\* a mutation of IsFailed: a response without status_code fails the upload
IsFailed_missing_status(status_code) == status_code \in {"ERROR", "EXPIRED", NullId}

IsFailed(status_code) == status_code \in {"ERROR", "EXPIRED"}

InRange_inclusive(n) == n <= MAX_POLL_ATTEMPTS

\* n in range(MAX_POLL_ATTEMPTS)
InRange(n) == n < MAX_POLL_ATTEMPTS

\* error_body.get("error", {}).get("message", str(e))
ErrorMessage(body) ==
    CASE body = "message" -> GraphApiMessage
      [] body = "null message" -> None
      [] OTHER -> HTTPStatusErrorText

\* what the except httpx.HTTPStatusError handler makes of the response; e.response.json()
\* raising inside the handler leaves the uploader and upload_to_platform catches it
FacebookHttpError(status, body) ==
    IF body = "not json"
      THEN ExceptionResult("facebook", JSONDecodeErrorText)
      ELSE Result("facebook", "error", ErrorMessage(body), NoId, status)

InstagramError(message) == InstagramResult("error", message, NoId, NoCode, FALSE)

InstagramHttpError(status, body) ==
    IF body = "not json"
      THEN InstagramError(JSONDecodeErrorText)
      ELSE InstagramResult("error", ErrorMessage(body), NoId, status, FALSE)

InitMeta ==
    /\ \E platform \in {"facebook", "instagram"} :
          /\ JobAtInvoke(platform)
          /\ meta_pc = platform
    /\ YouTubeIdle
    /\ TikTokIdle
    /\ AuxIdle
    /\ page_id \in OptionalIds
    /\ instagram_user_id \in OptionalIds
    /\ share_to_facebook \in BOOLEAN
    /\ fb_result = NoResult
    /\ posts = 0
    /\ ig_result = NoInstagramResult
    /\ container_id = NullId
    /\ attempt = 0
    /\ creates = 0
    /\ cross_post_param = FALSE
    /\ polls = 0
    /\ waits = 0
    /\ pending = 0
    /\ last_status = ""
    /\ finished = FALSE
    /\ publishes = 0
    /\ publish_response = "none"
    /\ log = {}

\* what no step of the instagram flow touches
meta_args == <<page_id, instagram_user_id, share_to_facebook>>
fb_vars == <<fb_result, posts>>
poll_vars == <<attempt, polls, waits, pending, last_status, finished>>
not_meta_vars == <<job_vars, yt_vars, tt_vars, aux_vars>>

ig_idle == <<ig_result, container_id, creates, cross_post_param, publishes,
            publish_response, poll_vars>>

\* if not credentials.page_id: the error dict, before any request
FacebookMissingPageId ==
    /\ meta_pc = "facebook"
    /\ ~Truthy(page_id)
    /\ fb_result' = Result("facebook", "error",
                           <<"page_id is required for Facebook uploads">>, NoId, NoCode)
    /\ meta_pc' = "done"
    /\ UNCHANGED <<posts, meta_args, ig_idle, log, not_meta_vars>>

\* client.post(upload_url, data=params) and all that follows it
FacebookPost ==
    /\ meta_pc = "facebook"
    /\ Truthy(page_id)
    /\ log' = log \cup {<<"Uploading video to Facebook Page: ", page_id>>}
    /\ posts' = posts + 1
    /\ \/ \* "id" in result
          fb_result' = Result("facebook", "success", <<>>, "fb123", NoCode)
       \/ \* no id: result.get("error", {}).get("message", "Unknown error")
          \E message \in {<<"Unknown error">>, GraphApiMessage, None} :
             fb_result' = Result("facebook", "error", message, NoId, NoCode)
       \/ \* raise_for_status raises
          \E status \in MetaHttpStatuses, body \in ErrorBodies :
             fb_result' = FacebookHttpError(status, body)
       \/ \* the request fails, or the 200 body is not JSON
          \E e \in {ConnectErrorText, JSONDecodeErrorText} :
             fb_result' = Result("facebook", "error", e, NoId, NoCode)
    /\ meta_pc' = "done"
    /\ UNCHANGED <<meta_args, ig_idle, not_meta_vars>>

\* if not credentials.instagram_user_id: the error dict, before any request
InstagramMissingUserId ==
    /\ meta_pc = "instagram"
    /\ ~Truthy(instagram_user_id)
    /\ ig_result' = InstagramError(<<"instagram_user_id is required for Instagram uploads">>)
    /\ meta_pc' = "done"
    /\ UNCHANGED <<container_id, creates, cross_post_param, publishes, publish_response,
                   poll_vars, meta_args, fb_vars, log, not_meta_vars>>

\* the creation request is sent: params of _create_instagram_container
CreateRequest ==
    /\ meta_pc = "instagram"
    /\ Truthy(instagram_user_id)
    /\ creates' = creates + 1
    /\ cross_post_param' = (share_to_facebook /\ Truthy(page_id))
    /\ log' = log \cup {<<"Uploading video to Instagram: ", instagram_user_id>>}

\* _create_instagram_container returns result.get("id")
CreateContainerReturns ==
    /\ CreateRequest
    /\ \E id \in {"17890", "", NullId} :
          /\ container_id' = id
          /\ IF HasContainer(id)
               THEN /\ meta_pc' = "poll"
                    /\ ig_result' = ig_result
               ELSE /\ meta_pc' = "done"
                    /\ ig_result' = InstagramError(<<"Failed to create media container">>)
    /\ UNCHANGED <<publishes, publish_response, poll_vars, meta_args, fb_vars,
                   not_meta_vars>>

\* raise_for_status of the creation response raises
CreateContainerHttpError ==
    /\ CreateRequest
    /\ \E status \in MetaHttpStatuses, body \in ErrorBodies :
          ig_result' = InstagramHttpError(status, body)
    /\ meta_pc' = "done"
    /\ UNCHANGED <<container_id, publishes, publish_response, poll_vars, meta_args,
                   fb_vars, not_meta_vars>>

\* the creation request fails, or its 200 body is not JSON
CreateContainerException ==
    /\ CreateRequest
    /\ \E e \in {ConnectErrorText, JSONDecodeErrorText} : ig_result' = InstagramError(e)
    /\ meta_pc' = "done"
    /\ UNCHANGED <<container_id, publishes, publish_response, poll_vars, meta_args,
                   fb_vars, not_meta_vars>>

\* one turn of the for loop up to the sleep: the GET and the test of status_code
PollStatus ==
    /\ meta_pc = "poll"
    /\ polls' = polls + 1
    /\ \E status_code \in StatusCodes :
          /\ last_status' = status_code
          /\ finished' = (finished \/ status_code = "FINISHED")
          /\ pending' = IF status_code \in TerminalStatusCodes THEN pending ELSE pending + 1
          /\ IF IsFinished(status_code)
               THEN /\ meta_pc' = "publish"
                    /\ ig_result' = ig_result
               ELSE IF IsFailed(status_code)
               THEN /\ meta_pc' = "done"
                    /\ ig_result' = InstagramError(<<"Video processing failed or timed out">>)
               ELSE /\ meta_pc' = "sleep"
                    /\ ig_result' = ig_result
    /\ UNCHANGED <<attempt, waits, container_id, creates, cross_post_param, publishes,
                   publish_response, meta_args, fb_vars, log, not_meta_vars>>

\* the GET fails or its body is not JSON: except Exception of _upload_video_to_instagram
PollRaises ==
    /\ meta_pc = "poll"
    /\ polls' = polls + 1
    /\ last_status' = "<raised>"
    /\ \E e \in {ConnectErrorText, JSONDecodeErrorText} : ig_result' = InstagramError(e)
    /\ meta_pc' = "done"
    /\ UNCHANGED <<attempt, waits, pending, finished, container_id, creates,
                   cross_post_param, publishes, publish_response, meta_args, fb_vars,
                   log, not_meta_vars>>

\* await asyncio.sleep(POLL_INTERVAL), then the next turn or the end of the loop
Sleep ==
    /\ meta_pc = "sleep"
    /\ waits' = waits + 1
    /\ attempt' = attempt + 1
    /\ IF InRange(attempt + 1)
         THEN /\ meta_pc' = "poll"
              /\ ig_result' = ig_result
         ELSE \* "Container processing timed out": return False
              /\ meta_pc' = "done"
              /\ ig_result' = InstagramError(<<"Video processing failed or timed out">>)
    /\ UNCHANGED <<polls, pending, last_status, finished, container_id, creates,
                   cross_post_param, publishes, publish_response, meta_args, fb_vars,
                   log, not_meta_vars>>

\* the publish request is sent
PublishRequest ==
    /\ meta_pc = "publish"
    /\ publishes' = publishes + 1
    /\ meta_pc' = "done"
    /\ UNCHANGED <<container_id, creates, cross_post_param, poll_vars, meta_args, fb_vars,
                   log, not_meta_vars>>

\* _publish_instagram_container returns the response body
PublishReturns ==
    /\ PublishRequest
    /\ \/ \* "id" in result
          /\ publish_response' = "id"
          /\ ig_result' = InstagramResult("success", <<>>, "17900", NoCode,
                                          share_to_facebook /\ IsNotNone(page_id))
       \/ /\ publish_response' = "no id"
          /\ ig_result' = InstagramError(<<"Publish failed - no media ID returned">>)

\* raise_for_status of the publish response raises
PublishHttpError ==
    /\ PublishRequest
    /\ publish_response' = "http error"
    /\ \E status \in MetaHttpStatuses, body \in ErrorBodies :
          ig_result' = InstagramHttpError(status, body)

\* the publish request fails, or its 200 body is not JSON
PublishException ==
    /\ PublishRequest
    /\ publish_response' = "exception"
    /\ \E e \in {ConnectErrorText, JSONDecodeErrorText} : ig_result' = InstagramError(e)

NextMeta ==
    \/ FacebookMissingPageId
    \/ FacebookPost
    \/ InstagramMissingUserId
    \/ CreateContainerReturns
    \/ CreateContainerHttpError
    \/ CreateContainerException
    \/ PollStatus
    \/ PollRaises
    \/ Sleep
    \/ PublishReturns
    \/ PublishHttpError
    \/ PublishException

SpecMeta == InitMeta /\ [][NextMeta]_vars

\* C14 (amended): when the polls observe k non-terminal statuses and then FINISHED,
\* with k+1 <= MAX_POLL_ATTEMPTS, there are exactly k+1 status queries and k waits,
\* then exactly one publish request, and the result is success exactly when the
\* publish response carries a media id, error otherwise.
C14_FinishedThenPublish ==
    finished =>
        /\ last_status = "FINISHED"
        /\ polls = pending + 1
        /\ polls <= MAX_POLL_ATTEMPTS
        /\ waits = pending
        /\ meta_pc \in {"publish", "done"}
        /\ meta_pc = "publish" => publishes = 0
        /\ meta_pc = "done" =>
              /\ publishes = 1
              /\ ig_result.status \in {"success", "error"}
              /\ ig_result.status = "success" <=> publish_response = "id"

\* C14 as stated: after k non-terminal polls and FINISHED there were k+1 status
\* queries, the publish step was invoked and the upload result is success.
C14_FinishedThenSuccess ==
    (finished /\ meta_pc = "done") =>
        /\ polls = pending + 1
        /\ publishes = 1
        /\ ig_result.status = "success"

\* C14 witness: FINISHED at the last poll allowed, k + 1 = MAX_POLL_ATTEMPTS, then success
C14_Witness ==
    /\ finished
    /\ pending = MAX_POLL_ATTEMPTS - 1
    /\ polls = MAX_POLL_ATTEMPTS
    /\ meta_pc = "done"
    /\ publishes = 1
    /\ ig_result.status = "success"

\* C15: MAX_POLL_ATTEMPTS status queries in a row without a terminal status end the
\* polling after exactly MAX_POLL_ATTEMPTS queries with an error result and without a
\* publish request; a publish request is only ever sent after a poll observed FINISHED.
C15_TimedOutAfterMaxPolls ==
    /\ polls <= MAX_POLL_ATTEMPTS
    /\ pending = MAX_POLL_ATTEMPTS =>
          /\ polls = MAX_POLL_ATTEMPTS
          /\ publishes = 0
          /\ meta_pc \in {"sleep", "done"}
          /\ meta_pc = "done" =>
                /\ ig_result.status = "error"
                /\ ig_result.message = <<"Video processing failed or timed out">>
    /\ publishes > 0 => finished

\* C15 witness: the polling timed out
C15_Witness ==
    /\ pending = MAX_POLL_ATTEMPTS
    /\ polls = MAX_POLL_ATTEMPTS
    /\ meta_pc = "done"
    /\ publishes = 0
    /\ ig_result.status = "error"

\* C16: a poll that observes ERROR or EXPIRED is the last one: the upload is over with
\* an error result, no wait follows the poll and no publish request is sent.
C16_FailedStatusEndsUpload ==
    last_status \in {"ERROR", "EXPIRED"} =>
        /\ meta_pc = "done"
        /\ ig_result.status = "error"
        /\ polls = pending + 1
        /\ waits = polls - 1
        /\ publishes = 0

\* C16 witness: EXPIRED at the third poll
C16_Witness ==
    /\ last_status = "EXPIRED"
    /\ polls = 3
    /\ waits = 2
    /\ meta_pc = "done"
    /\ ig_result.status = "error"

\* C17: a creation request that fails, or whose response has no container id, ends the
\* upload with an error result: one creation request, no status poll, no publish request.
C17_CreateFailsFast ==
    /\ creates <= 1
    /\ (creates > 0 /\ container_id \in {NullId, ""}) =>
          /\ meta_pc = "done"
          /\ ig_result.status = "error"
          /\ polls = 0
          /\ waits = 0
          /\ publishes = 0

\* C17 witness: the creation request was answered with HTTP 400
C17_Witness ==
    /\ creates = 1
    /\ meta_pc = "done"
    /\ ig_result.status = "error"
    /\ ig_result.error_code = 400
    /\ polls = 0

\* C18: in a success result cross_posted_to_facebook is true exactly when the creation
\* request carried the cross-post parameter, for every share_to_facebook and page_id.
C18_CrossPostFlagEchoed ==
    ig_result.status = "success" =>
        (ig_result.cross_posted_to_facebook <=> cross_post_param)

\* C19: a facebook upload with page_id None or empty ends with the page_id-required
\* error result without any request; otherwise exactly one upload request is sent,
\* whatever its outcome.
C19_PageIdOrOneRequest ==
    /\ posts <= 1
    /\ (platforms = <<"facebook">> /\ meta_pc = "done") =>
          IF page_id \in {NullId, ""}
            THEN /\ posts = 0
                 /\ fb_result.status = "error"
                 /\ fb_result.message = <<"page_id is required for Facebook uploads">>
            ELSE /\ posts = 1
                 /\ fb_result.status \in {"success", "error"}

\* C19 witness: an empty page_id, refused without a request
C19_Witness ==
    /\ platforms = <<"facebook">>
    /\ meta_pc = "done"
    /\ page_id = ""
    /\ posts = 0
    /\ fb_result.status = "error"

(***************************************************************************)
(* platforms/tiktok.py: upload_video                                       *)
(***************************************************************************)
\* post_button_selectors of _wait_for_video_processing and of _click_post_button
ProcessingSelectors == 3
ClickSelectors == 4

\* str(e) of an exception of Playwright that is not caught by a helper
PlaywrightErrorText == <<"Target page, context or browser has been closed">>

TikTokError(message) == Result("tiktok", "error", message, NoId, NoCode)

TikTokSuccess == Result("tiktok", "success", <<"Video uploaded successfully">>, NoId, NoCode)

InitTikTok ==
    /\ JobAtInvoke("tiktok")
    /\ YouTubeIdle
    /\ MetaIdle
    /\ AuxIdle
    /\ tt_pc = "launch"
    /\ caption \in {"", "my caption"}
    /\ screenshot_on_error \in BOOLEAN
    /\ selector = 0
    /\ browser = "none"
    /\ steps = <<>>
    /\ exhausted = {}
    /\ screenshots = 0
    /\ caption_fill = "not run"
    /\ tt_result = NoResult

not_tt_vars == <<job_vars, yt_vars, meta_vars, aux_vars>>
tt_args == <<caption, screenshot_on_error>>

\* finally: if browser: await browser.close()
Close_never == browser' = browser

Close == browser' = IF browser = "open" THEN "closed" ELSE browser

\* a step went on
Continue(step, next) ==
    /\ steps' = Append(steps, step)
    /\ tt_pc' = next
    /\ UNCHANGED <<browser, exhausted, screenshots, tt_result, tt_args, caption_fill, not_tt_vars>>

\* an exception reaches the except Exception of upload_video
Raise(step) ==
    /\ steps' = Append(steps, step)
    /\ exhausted' = exhausted \cup {step}
    /\ tt_result' = TikTokError(PlaywrightErrorText)
    /\ tt_pc' = "done"
    /\ Close
    /\ UNCHANGED <<selector, screenshots, tt_args, caption_fill, not_tt_vars>>

\* the step failed: the screenshot, if asked for, and the return of the step's error dict;
\* page.screenshot can raise too
Abort(step, message) ==
    /\ steps' = Append(steps, step)
    /\ exhausted' = exhausted \cup {step}
    /\ IF screenshot_on_error
         THEN /\ screenshots' = screenshots + 1
              /\ tt_result' \in {TikTokError(message), TikTokError(PlaywrightErrorText)}
         ELSE /\ screenshots' = screenshots
              /\ tt_result' = TikTokError(message)
    /\ tt_pc' = "done"
    /\ Close
    /\ UNCHANGED <<selector, tt_args, caption_fill, not_tt_vars>>

\* p.chromium.launch, browser.new_context, context.new_page
Launch ==
    /\ tt_pc = "launch"
    /\ \/ /\ browser' = "open"
          /\ steps' = Append(steps, "launch")
          /\ tt_pc' = "cookies"
          /\ UNCHANGED <<selector, exhausted, screenshots, tt_result, tt_args,
                         caption_fill, not_tt_vars>>
       \/ \* chromium.launch raises: browser is still None
          Raise("launch")
       \/ \* new_context or new_page raises: the finally closes the browser
          /\ browser' = "closed"
          /\ steps' = Append(steps, "launch")
          /\ exhausted' = exhausted \cup {"launch"}
          /\ tt_result' = TikTokError(PlaywrightErrorText)
          /\ tt_pc' = "done"
          /\ UNCHANGED <<selector, screenshots, tt_args, caption_fill, not_tt_vars>>

\* await _inject_cookies(page, credentials.session_cookie)
InjectCookies ==
    /\ tt_pc = "cookies"
    /\ \/ Continue("cookies", "goto") /\ selector' = selector
       \/ Raise("cookies")

\* await page.goto(TIKTOK_UPLOAD_URL, ...)
Goto ==
    /\ tt_pc = "goto"
    /\ \/ Continue("goto", "login check") /\ selector' = selector
       \/ Abort("goto", <<"Navigation timeout - TikTok may be blocking automated access">>)
       \/ Raise("goto")

\* a mutation of LoginCheck: the login page is noticed and the attempt goes on
LoginCheck_goes_on ==
    /\ tt_pc = "login check"
    /\ steps' = Append(steps, "login check")
    /\ tt_pc' = "upload ready"
    /\ exhausted' \in {exhausted, exhausted \cup {"login check"}}
    /\ UNCHANGED <<selector, browser, screenshots, tt_result, tt_args, caption_fill, not_tt_vars>>

\* "login" in page.url.lower(): the error dict, without a screenshot
LoginCheck ==
    /\ tt_pc = "login check"
    /\ \/ Continue("login check", "upload ready") /\ selector' = selector
       \/ /\ steps' = Append(steps, "login check")
          /\ exhausted' = exhausted \cup {"login check"}
          /\ tt_result' = TikTokError(<<"Session cookie expired. Please extract a new cookie.">>)
          /\ tt_pc' = "done"
          /\ Close
          /\ UNCHANGED <<selector, screenshots, tt_args, caption_fill, not_tt_vars>>

\* _wait_for_upload_ready: wait_for_selector with DEFAULT_TIMEOUT
WaitForUploadReady ==
    /\ tt_pc = "upload ready"
    /\ \/ Continue("upload ready", "attach") /\ selector' = selector
       \/ Abort("upload ready", <<"Upload page failed to load">>)
       \/ Raise("upload ready")

\* _upload_video_file: set_input_files, or no file input, or an exception
UploadVideoFile ==
    /\ tt_pc = "attach"
    /\ \/ Continue("attach", "processing") /\ selector' = 1
       \/ Abort("attach", <<"Failed to upload video file">>)

\* the step after _wait_for_video_processing: if metadata.caption
AfterProcessing == IF caption # "" THEN "caption" ELSE "click"

\* _wait_for_video_processing, one selector of the loop: wait_for_selector with
\* UPLOAD_TIMEOUT; after the last selector timed out the function returns True
WaitForVideoProcessing ==
    /\ tt_pc = "processing"
    /\ \/ \* the enabled Post button showed
          Continue("processing", AfterProcessing) /\ selector' = 1
       \/ \* PlaywrightTimeout: continue
          IF selector < ProcessingSelectors
            THEN /\ selector' = selector + 1
                 /\ UNCHANGED <<tt_pc, browser, steps, exhausted, screenshots, tt_result,
                                tt_args, caption_fill, not_tt_vars>>
            ELSE \* return True  # Continue anyway
                 /\ steps' = Append(steps, "processing")
                 /\ exhausted' = exhausted \cup {"processing"}
                 /\ tt_pc' = AfterProcessing
                 /\ selector' = 1
                 /\ UNCHANGED <<browser, screenshots, tt_result, tt_args, caption_fill, not_tt_vars>>
       \/ \* another exception: return False
          Abort("processing", <<"Video processing failed or timed out">>)

\* the return value of _fill_caption: False only from its except clause
fill_caption(outcome) == outcome # "raised"

FillCaptionAborts_on_false(filled) == ~filled

\* await _fill_caption(page, metadata.caption): the value is not looked at
FillCaptionAborts(filled) == FALSE

\* _fill_caption: a caption element was clicked and typed into, or none of the
\* selectors matched, or query_selector, click or type raised
FillCaption ==
    /\ tt_pc = "caption"
    /\ \E outcome \in {"typed", "no element", "raised"} :
          /\ caption_fill' = outcome
          /\ steps' = Append(steps, "caption")
          /\ IF FillCaptionAborts(fill_caption(outcome))
               THEN /\ exhausted' = exhausted \cup {"caption"}
                    /\ tt_result' = TikTokError(PlaywrightErrorText)
                    /\ tt_pc' = "done"
                    /\ Close
                    /\ selector' = selector
               ELSE /\ tt_pc' = "click"
                    /\ selector' = 1
                    /\ UNCHANGED <<browser, exhausted, tt_result>>
    /\ UNCHANGED <<screenshots, tt_args, not_tt_vars>>

\* _click_post_button, one selector of the loop
ClickPostButton ==
    /\ tt_pc = "click"
    /\ \/ \* no button for the selector, or a disabled one
          IF selector < ClickSelectors
            THEN /\ selector' = selector + 1
                 /\ UNCHANGED <<tt_pc, browser, steps, exhausted, screenshots, tt_result,
                                tt_args, caption_fill, not_tt_vars>>
            ELSE Abort("click", <<"Failed to click Post button">>)
       \/ \* button.click(), the sleeps and the success dict
          /\ steps' = steps \o <<"click", "button.click">>
          /\ tt_result' = TikTokSuccess
          /\ tt_pc' = "done"
          /\ Close
          /\ UNCHANGED <<selector, exhausted, screenshots, tt_args, caption_fill, not_tt_vars>>
       \/ \* query_selector, get_attribute or click raises: return False
          Abort("click", <<"Failed to click Post button">>)

NextTikTok ==
    \/ Launch
    \/ InjectCookies
    \/ Goto
    \/ LoginCheck
    \/ WaitForUploadReady
    \/ UploadVideoFile
    \/ WaitForVideoProcessing
    \/ FillCaption
    \/ ClickPostButton

SpecTikTok == InitTikTok /\ [][NextTikTok]_vars

\* C20: once a step has failed or run out of its wait, the attempt is over with an
\* error result, that step is the last one executed (the submit click in particular
\* does not follow), and no step is executed twice.
C20_FailedStepEndsAttempt ==
    /\ exhausted # {} =>
          /\ tt_pc = "done"
          /\ tt_result.status = "error"
          /\ tt_result.message # <<>>
          /\ \A n \in 1..Len(steps) : steps[n] \in exhausted => n = Len(steps)
    /\ \A m, n \in 1..Len(steps) : steps[m] = steps[n] => m = n

\* C21: with screenshot_on_error true, every attempt that ends with an error result
\* has taken a screenshot before the result is returned.
C21_FailureCapturesArtifact ==
    (screenshot_on_error /\ tt_pc = "done" /\ tt_result.status = "error") =>
        screenshots >= 1

\* C22: whatever the caption step does (types the caption, finds no element, raises),
\* the attempt goes on to the submit click and is not ended by the caption step.
C22_CaptionFillNonFatal ==
    caption_fill # "not run" =>
        /\ "caption" \notin exhausted
        /\ tt_pc \in {"click", "done"}
        /\ tt_pc = "done" => steps[Len(steps)] \in {"click", "button.click"}

\* C22 witness: the caption step raised and the attempt still ended with success
C22_Witness ==
    /\ caption_fill = "raised"
    /\ tt_pc = "done"
    /\ tt_result.status = "success"
    /\ steps[Len(steps)] = "button.click"

\* C23: when upload_video is over the browser is not open: it was closed on the way
\* out, or it was never acquired because the launch itself raised.
C23_BrowserReleased ==
    tt_pc = "done" =>
        /\ browser \in {"none", "closed"}
        /\ browser = "none" => (steps = <<"launch">> /\ exhausted = {"launch"})

\* C23 witness: a step raised after the browser was acquired, and the browser is closed
C23_Witness ==
    /\ tt_pc = "done"
    /\ browser = "closed"
    /\ "upload ready" \in exhausted
    /\ tt_result = TikTokError(PlaywrightErrorText)

(***************************************************************************)
(* Several jobs on the one event loop of the process: every handler and    *)
(* process_publish_request are coroutines of the same thread, so a job     *)
(* gives way to another only at an await.                                  *)
(***************************************************************************)
\* most next_chunk calls of one job
MaxTries == 2

\* video_filename: the last segment of the URL path, the same for every job here
video_filename == "video.mp4"

\* os.path.join(tmp_dir, video_filename); directory 0 stands for /tmp itself
Path(dir, name) == [dir |-> dir, name |-> name]

\* the path of the screenshot of a failed navigation
ScreenshotPath == Path(0, "tiktok_error_navigation.png")

mkdtemp_fixed(existing) == {1}

\* tempfile.TemporaryDirectory(): mkdtemp makes a directory under a name no existing
\* directory has
mkdtemp(existing) == Dirs \ existing

CacheMiss_always(cached) == TRUE

\* lru_cache(maxsize=1) of a function without arguments: a miss only before the first result
CacheMiss(cached) == cached = 0

\* the directories that exist
ExistingDirs == { d \in Dirs : owner[d] # 0 }

InitLoop ==
    /\ JobAtInvoke("youtube")
    /\ UploadersIdle
    /\ loop_pc = [j \in Jobs |-> "start"]
    /\ loop_platform \in [Jobs -> {"youtube", "tiktok"}]
    /\ tmp_dirs = [j \in Jobs |-> 0]
    /\ owner = [d \in Dirs |-> 0]
    /\ files = {}
    /\ foreign = {}
    /\ overwrites = {}
    /\ client = 0
    /\ created = 0
    /\ handles = [j \in Jobs |-> 0]
    /\ blocked = 0
    /\ tries = [j \in Jobs |-> 0]
    /\ NameIdle

single_job_vars == <<job_vars, uploader_vars, name_vars>>

\* job j writes the file at path
Write(j, path) ==
    /\ files' = { f \in files : f.path # path } \cup {[path |-> path, writer |-> j]}
    /\ overwrites' = overwrites \cup
          { [path |-> path, by |-> j, of |-> f.writer] :
              f \in { g \in files : g.path = path /\ g.writer # j } }

\* job j reads, writes or deletes in directory d
Access(j, op, d) ==
    foreign' = IF owner[d] # j
                 THEN foreign \cup {[job |-> j, op |-> op, dir |-> d]}
                 ELSE foreign

\* job j goes on to next
Goes(j, next) == loop_pc' = [loop_pc EXCEPT ![j] = next]

\* with tempfile.TemporaryDirectory() as tmp_dir
MkDtemp(j) ==
    /\ blocked = 0
    /\ loop_pc[j] = "start"
    /\ \E d \in mkdtemp(ExistingDirs) :
          /\ tmp_dirs' = [tmp_dirs EXCEPT ![j] = d]
          /\ owner' = [owner EXCEPT ![d] = j]
    /\ Goes(j, "download")
    /\ UNCHANGED <<loop_platform, files, foreign, overwrites, client, created, handles,
                   blocked, tries, single_job_vars>>

\* await download_from_url(request.video_url, local_video_path)
Download(j) ==
    /\ blocked = 0
    /\ loop_pc[j] = "download"
    /\ Write(j, Path(tmp_dirs[j], video_filename))
    /\ Access(j, "write", tmp_dirs[j])
    /\ Goes(j, "secret")
    /\ UNCHANGED <<loop_platform, tmp_dirs, owner, client, created, handles, blocked,
                   tries, single_job_vars>>

\* get_secret: client = _get_client(), with no await between the cache lookup and the
\* construction
GetClient(j) ==
    /\ blocked = 0
    /\ loop_pc[j] = "secret"
    /\ IF CacheMiss(client)
         THEN /\ created' = created + 1
              /\ client' = created + 1
         ELSE UNCHANGED <<created, client>>
    /\ handles' = [handles EXCEPT ![j] = client']
    /\ Goes(j, loop_platform[j])
    /\ UNCHANGED <<loop_platform, tmp_dirs, owner, files, foreign, overwrites, blocked,
                   tries, single_job_vars>>

\* youtube upload_video calls _resumable_upload(insert_request) without await: the
\* first next_chunk, reading the file, begins and the thread stays in the call
BeginNextChunk(j) ==
    /\ blocked = 0
    /\ loop_pc[j] = "youtube"
    /\ blocked' = j
    /\ tries' = [tries EXCEPT ![j] = 1]
    /\ Access(j, "read", tmp_dirs[j])
    /\ Goes(j, "in chunk")
    /\ UNCHANGED <<loop_platform, tmp_dirs, owner, files, overwrites, client, created,
                   handles, single_job_vars>>

\* next_chunk returns the response, or fails with a retriable error
EndNextChunk(j) ==
    /\ blocked = j
    /\ loop_pc[j] = "in chunk"
    /\ \/ /\ Goes(j, "cleanup")
          /\ blocked' = 0
       \/ /\ tries[j] < MaxTries
          /\ Goes(j, "in backoff")
          /\ blocked' = j
    /\ UNCHANGED <<loop_platform, tmp_dirs, owner, files, foreign, overwrites, client,
                   created, handles, tries, single_job_vars>>

\* time.sleep(sleep_seconds) returns and the while loop calls next_chunk again
EndSleep(j) ==
    /\ blocked = j
    /\ loop_pc[j] = "in backoff"
    /\ tries' = [tries EXCEPT ![j] = tries[j] + 1]
    /\ Goes(j, "in chunk")
    /\ UNCHANGED <<loop_platform, tmp_dirs, owner, files, foreign, overwrites, client,
                   created, handles, blocked, single_job_vars>>

\* await tiktok_upload_video(...): the upload goes through, or the navigation times out
\* and the screenshot is written
Automation(j) ==
    /\ blocked = 0
    /\ loop_pc[j] = "tiktok"
    /\ Access(j, "read", tmp_dirs[j])
    /\ \/ UNCHANGED <<files, overwrites>>
       \/ Write(j, ScreenshotPath)
    /\ Goes(j, "cleanup")
    /\ UNCHANGED <<loop_platform, tmp_dirs, owner, client, created, handles, blocked,
                   tries, single_job_vars>>

\* the with block is left: the TemporaryDirectory and all in it are removed
RemoveTempDir(j) ==
    /\ blocked = 0
    /\ loop_pc[j] = "cleanup"
    /\ Access(j, "delete", tmp_dirs[j])
    /\ files' = { f \in files : f.path.dir # tmp_dirs[j] }
    /\ owner' = [owner EXCEPT ![tmp_dirs[j]] = 0]
    /\ Goes(j, "done")
    /\ UNCHANGED <<loop_platform, tmp_dirs, overwrites, client, created, handles, blocked,
                   tries, single_job_vars>>

\* what job j can do next
Step(j) ==
    \/ MkDtemp(j)
    \/ Download(j)
    \/ GetClient(j)
    \/ BeginNextChunk(j)
    \/ EndNextChunk(j)
    \/ EndSleep(j)
    \/ Automation(j)
    \/ RemoveTempDir(j)

NextLoop ==
    \/ \E j \in Jobs : MkDtemp(j)
    \/ \E j \in Jobs : Download(j)
    \/ \E j \in Jobs : GetClient(j)
    \/ \E j \in Jobs : BeginNextChunk(j)
    \/ \E j \in Jobs : EndNextChunk(j)
    \/ \E j \in Jobs : EndSleep(j)
    \/ \E j \in Jobs : Automation(j)
    \/ \E j \in Jobs : RemoveTempDir(j)

SpecLoop == InitLoop /\ [][NextLoop]_vars

\* the job holds a TemporaryDirectory
Holding(j) == loop_pc[j] \notin {"start", "done"}

\* C24: the Secret Manager client is constructed at most once, however the first
\* uses of the jobs interleave, and every job that asked got that same client.
C24_ClientCreatedOnce ==
    /\ created <= 1
    /\ \A j \in Jobs : handles[j] # 0 => (client # 0 /\ handles[j] = client)
    /\ created = 0 <=> client = 0

\* C24 witness: every job has asked for the client and there is one
C24_Witness ==
    /\ created = 1
    /\ \A j \in Jobs : handles[j] = client
    /\ \E j \in Jobs : loop_pc[j] = "done"
    /\ \E j \in Jobs : loop_pc[j] \in {"youtube", "tiktok"}

\* C25: while a job is in a chunk transfer or a backoff pause of the youtube uploader,
\* every other job that has not ended can take its next step.
C25_OtherJobsProgress ==
    \A a, b \in Jobs :
        (a # b /\ loop_pc[a] \in {"in chunk", "in backoff"} /\ loop_pc[b] # "done")
            => ENABLED Step(b)

\* C26: two jobs that hold a temporary directory at the same time hold different
\* ones, so their media paths differ, and no job has read, written or deleted in a
\* directory that was not its own.
C26_MediaOwnedByOneJob ==
    /\ \A a, b \in Jobs :
          (a # b /\ Holding(a) /\ Holding(b)) =>
              /\ tmp_dirs[a] # tmp_dirs[b]
              /\ Path(tmp_dirs[a], video_filename) # Path(tmp_dirs[b], video_filename)
    /\ \A j \in Jobs : Holding(j) => owner[tmp_dirs[j]] = j
    /\ foreign = {}

\* C26 witness: two jobs with the same file name have both downloaded
C26_Witness ==
    /\ \A j \in Jobs : loop_pc[j] \in {"secret", "youtube", "tiktok"}
    /\ Cardinality({ f \in files : f.path.name = video_filename }) = MaxJobs

\* C27: no job writes a file that another job wrote.
C27_NoSharedFile ==
    overwrites = {}

\* the job under a host that keeps running it: the event loop carries a task on
\* whenever it can take a step, every external call returning or raising
SpecFair == Init /\ [][Next]_vars /\ WF_vars(Next)

\* C28: a job that has begun processing gets to the end of process_publish_request
\* and returns its result list.
C28_RunsToCompletion ==
    (pc = "enter") ~> (pc = "done")

\* the access token every Meta request carries
access_token == "EAAG-access-token"

\* the secret values upload_to_platform resolved for the platform of the call
ResolvedSecrets ==
    { v \in (IF platforms = <<"facebook">>
               THEN {access_token, page_id}
               ELSE {access_token, instagram_user_id}) : Truthy(v) }

\* C29: no message handed to the logger holds a resolved secret value in full.
C29_NoSecretInLog ==
    \A message \in log : \A n \in 1..Len(message) : message[n] \notin ResolvedSecrets

(***************************************************************************)
(* utils/secrets.py: build_secret_name, character by character             *)
(***************************************************************************)
\* longest channel_id tried
MaxLen == 2

\* the characters tried: two letters in both cases and the underscore
Chars == {"a", "A", "b", "B", "_"}

\* the strings of at most n characters
Strings(n) == UNION { [1..m -> Chars] : m \in 0..n }

\* the argument triples tried: any channel_id, one-character platform and key_type
Lookups == Strings(MaxLen) \X [1..1 -> Chars] \X [1..1 -> Chars]

\* str.upper of one character
upper_char(c) ==
    CASE c = "a" -> "A"
      [] c = "b" -> "B"
      [] OTHER -> c

\* str.upper
str_upper(s) == [n \in 1..Len(s) |-> upper_char(s[n])]

\* the pattern of the module docstring, {CHANNEL_ID_UPPERCASE}_{PLATFORM}_{KEY_TYPE}
build_name_channel_upper(channel, platform, key_type) ==
    str_upper(channel) \o <<"_">> \o platform \o <<"_">> \o key_type

\* f"{channel_id.upper()}_{platform.upper()}_{key_type.upper()}"
build_name(channel, platform, key_type) ==
    str_upper(channel) \o <<"_">> \o str_upper(platform) \o <<"_">> \o str_upper(key_type)

InitName ==
    /\ JobAtInvoke("youtube")
    /\ UploadersIdle
    /\ LoopIdle
    /\ name_args \in Lookups
    /\ built_name = <<>>

\* secret_name = build_secret_name(channel_id, platform, key_type)
BuildSecretName ==
    /\ built_name = <<>>
    /\ built_name' = build_name(name_args[1], name_args[2], name_args[3])
    /\ UNCHANGED <<name_args, job_vars, uploader_vars, loop_vars>>

NextName == BuildSecretName

SpecName == InitName /\ [][NextName]_vars

\* two characters that are the same up to letter case
SameLetter(c, d) == c = d \/ {c, d} \in {{"a", "A"}, {"b", "B"}}

\* two strings that differ at most in letter case
SameUpToCase(s, t) ==
    /\ Len(s) = Len(t)
    /\ \A n \in 1..Len(s) : SameLetter(s[n], t[n])

\* C30: the name built for (channel, platform, keyName) is the three arguments in
\* upper case joined by "_": it has their lengths plus two, an underscore after the
\* channel and after the platform, no lower-case letter, each character the same
\* letter as the argument's; and any lookup whose arguments differ from these at
\* most in letter case is given the same name.
C30_SecretNameIsUpperJoined ==
    built_name # <<>> =>
        LET channel == name_args[1]
            platform == name_args[2]
            key_type == name_args[3]
            p == Len(channel) + 1
            q == p + Len(platform) + 1
        IN  /\ Len(built_name) = q + Len(key_type)
            /\ built_name[p] = "_"
            /\ built_name[q] = "_"
            /\ \A n \in 1..Len(built_name) : built_name[n] \notin {"a", "b"}
            /\ \A n \in 1..Len(channel) : SameLetter(built_name[n], channel[n])
            /\ \A n \in 1..Len(platform) : SameLetter(built_name[p + n], platform[n])
            /\ \A n \in 1..Len(key_type) : SameLetter(built_name[q + n], key_type[n])
            /\ \A other \in Lookups :
                  (/\ SameUpToCase(other[1], channel)
                   /\ SameUpToCase(other[2], platform)
                   /\ SameUpToCase(other[3], key_type))
                      => build_name(other[1], other[2], other[3]) = built_name

\* C30 witness: mixed-case arguments, the name all in upper case
C30_Witness ==
    /\ name_args = << <<"a", "B">>, <<"b">>, <<"a">> >>
    /\ built_name = <<"A", "B", "_", "B", "_", "A">>

(***************************************************************************)
(* The whole job, /validate against the dry run, and the uploaders once    *)
(* more.                                                                   *)
(***************************************************************************)
\* C31: in a real job for [youtube, facebook] whose download succeeded, whose youtube
\* upload returned success with id "abc123" and whose facebook upload was rejected
\* with "Invalid token" and code 401, the job returns exactly these two results in
\* that order, and success_count over them is 1.
C31_EndToEnd ==
    LET uploaded == Result("youtube", "success", <<>>, "abc123", NoCode)
        rejected == Result("facebook", "error", <<"Invalid token">>, NoId, 401)
    IN  (/\ ~dry_run
         /\ platforms = <<"youtube", "facebook">>
         /\ download = "ok"
         /\ outcomes = {Ended(1, Returns(uploaded)), Ended(2, Returns(rejected))}) =>
            /\ pc \in {"log", "loop", "cleanup", "return", "done"}
            /\ Len(results) = 2 =>
                  /\ results = <<uploaded, rejected>>
                  /\ success_count(results) = 1
            /\ pc = "done" =>
                  /\ retval = <<uploaded, rejected>>
                  /\ success_count(retval) = 1

\* C31 witness: that job has returned its two results
C31_Witness ==
    /\ ~dry_run
    /\ platforms = <<"youtube", "facebook">>
    /\ download = "ok"
    /\ pc = "done"
    /\ Len(retval) = 2
    /\ retval[1].video_id = "abc123"
    /\ retval[2].message = <<"Invalid token">>
    /\ retval[2].error_code = 401

\* C32: a youtube result with status success carries an identifier that is present
\* and not null: a finished upload whose response has no id never gives success.
C32_SuccessCarriesIdentifier ==
    (yt_pc = "done" /\ yt_result.status = "success") =>
        yt_result.video_id \notin {NullId, NoId}

\* C33: a real publish request is answered "accepted", without a job id, in the step
\* that schedules the job, before any download, lookup or upload of it, and the answer
\* stays that whatever the job does later; a dry run is answered only when the awaited
\* job has returned, "validated" if every result is validated and "error" otherwise.
C33_AnsweredBeforeJobRuns ==
    /\ ~dry_run =>
          /\ pc = "received" => response = "none"
          /\ pc # "received" =>
                /\ response = "accepted"
                /\ job_id = NullId
          /\ pc \in {"received", "enter"} =>
                /\ downloads = 0
                /\ started = 0
                /\ resolved = {}
                /\ invoked = {}
                /\ tmp_dir = "none"
    /\ dry_run =>
          /\ pc # "failed"
          /\ pc # "done" => response = "none"
          /\ response # "none" =>
                /\ job_id = NullId
                /\ response = IF \A n \in 1..Len(retval) : retval[n].status = "validated"
                                THEN "validated"
                                ELSE "error"

\* C33 witness: the job of an accepted request raised, and the answer is what it was
C33_Witness ==
    /\ ~dry_run
    /\ pc = "failed"
    /\ response = "accepted"
    /\ job_id = NullId

\* C34: in every run of the tiktok upload the cookie is injected before the
\* navigation; the file is attached only after the navigation went through, the page
\* was no login page and the upload control showed; the processing wait starts only
\* after the file was attached; the caption is filled only after the processing wait;
\* the submit click comes after all the steps that ran, and at most once.
C34_StepOrdering ==
    LET at(step) == { n \in 1..Len(steps) : steps[n] = step }
        ran(step) == at(step) # {}
        passed(step) == ran(step) /\ step \notin exhausted
        before(a, b) == \A m \in at(a), n \in at(b) : m < n
    IN  /\ ran("goto") => passed("cookies") /\ before("cookies", "goto")
        /\ ran("attach") =>
              \A step \in {"goto", "login check", "upload ready"} :
                 passed(step) /\ before(step, "attach")
        /\ before("goto", "login check") /\ before("login check", "upload ready")
        /\ ran("processing") => passed("attach") /\ before("attach", "processing")
        /\ ran("caption") => ran("processing") /\ before("processing", "caption")
        /\ ran("button.click") =>
              /\ \A step \in {"cookies", "goto", "login check", "upload ready", "attach"} :
                    passed(step)
              /\ ran("processing")
              /\ caption # "" => ran("caption")
              /\ \A n \in 1..Len(steps) :
                    steps[n] \notin {"click", "button.click"} => n < Len(steps) - 1
              /\ steps[Len(steps)] = "button.click"
        /\ Cardinality(at("button.click")) <= 1

\* C34 witness: a run with a caption went through every step and clicked once
C34_Witness ==
    /\ tt_pc = "done"
    /\ tt_result.status = "success"
    /\ steps = <<"launch", "cookies", "goto", "login check", "upload ready", "attach",
                 "processing", "caption", "click", "button.click">>

\* C35: the retry counter counts every transient failure of the call, whatever chunks
\* were taken in between: the call ends with "retries exhausted" at transient failure
\* MAX_RETRIES + 1 even when no two failures came in a row, a call that succeeds has
\* seen at most MAX_RETRIES of them, and the exponent of each pause is the number of
\* failures of the whole call so far.
C35_RetryBudgetCumulative ==
    /\ retry = calls - sent - (IF fatal # 0 THEN 1 ELSE 0)
    /\ retry > MAX_RETRIES =>
          /\ yt_pc = "done"
          /\ yt_result = ExceptionResult("youtube", RetriesExhaustedMessage)
    /\ (yt_pc = "done" /\ yt_result.status = "success") =>
          calls - sent <= MAX_RETRIES
    /\ yt_pc = "chunk" =>
          /\ last_sleep.n = calls - sent
          /\ last_sleep.n >= bursts

\* C35 witness: MAX_RETRIES + 1 failures, never two in a row, and the call gave up
C35_Witness ==
    /\ yt_pc = "done"
    /\ worst = 1
    /\ bursts = MAX_RETRIES + 1
    /\ sent = MAX_RETRIES
    /\ retry = MAX_RETRIES + 1
    /\ yt_result.status = "error"
    /\ yt_result.message = RetriesExhaustedMessage
    /\ last_sleep.n = MAX_RETRIES

\* C36: a status response that is not FINISHED, ERROR or EXPIRED (one without a
\* status_code included, which is what an error response with a JSON body is, as no
\* raise_for_status is called on it) makes the poller wait and poll again: it does
\* not end the upload, it does not lead to the publish request, and the polling that
\* only sees such responses ends in the timeout after MAX_POLL_ATTEMPTS queries.
C36_UnknownStatusKeepsPolling ==
    /\ last_status \in StatusCodes \ TerminalStatusCodes =>
          \/ /\ meta_pc = "sleep"
             /\ waits = polls - 1
          \/ /\ meta_pc = "poll"
             /\ waits = polls
             /\ polls < MAX_POLL_ATTEMPTS
          \/ /\ meta_pc = "done"
             /\ polls = MAX_POLL_ATTEMPTS
             /\ waits = MAX_POLL_ATTEMPTS
             /\ ig_result = InstagramError(<<"Video processing failed or timed out">>)
    /\ (polls > 0 /\ pending = polls) =>
          /\ publishes = 0
          /\ ig_result.status # "success"
          /\ meta_pc = "done" => polls = MAX_POLL_ATTEMPTS \/ last_status = "<raised>"

\* C36 witness: MAX_POLL_ATTEMPTS responses, the last without a status_code, then the timeout
C36_Witness ==
    /\ meta_pc = "done"
    /\ last_status = NullId
    /\ pending = MAX_POLL_ATTEMPTS
    /\ polls = MAX_POLL_ATTEMPTS
    /\ publishes = 0
    /\ ig_result.status = "error"

\* C37: for every store and every platform list, validate_channel_secrets reports a
\* platform valid exactly when the dry run gives it status validated, both going by
\* the same row of keys per platform, and all_valid of /validate equals the dry run's.
C37_ValidateAgreesWithDryRun ==
    /\ \A platform \in Platform :
          /\ required_keys(platform) = RequiredKeys(platform)
          /\ { required_keys(platform)[n] : n \in 1..Len(required_keys(platform)) }
                = RequiredKeySet(platform)
    /\ (dry_run /\ pc = "done") =>
          LET validation_result == validate_channel_secrets(channel_id, platforms)
          IN  /\ Len(retval) = Len(platforms)
              /\ \A n \in 1..Len(platforms) :
                    validation_result[platforms[n]] <=> retval[n].status = "validated"
              /\ validate_all_valid(validation_result) <=> all_valid

\* C37 witness: a dry run over two platforms, the first validated and the second not
C37_Witness ==
    /\ dry_run
    /\ pc = "done"
    /\ Len(platforms) = 2
    /\ retval[1].status = "validated"
    /\ retval[2].status = "error"
    /\ ~validate_channel_secrets(channel_id, platforms)[platforms[2]]

\* C38: in a real job whose download succeeded the file is there during every
\* attempt, and the temporary directory is not removed before the attempt of the
\* last requested platform has returned its result.
C38_MediaKeptUntilLastAttempt ==
    (~dry_run /\ download = "ok") =>
        /\ pc \in {"resolve", "invoke", "log"} =>
              /\ video_file = "complete"
              /\ tmp_dir = "exists"
        /\ cleanups > 0 => Len(results) = Len(platforms)

\* C39: with an empty platform list nothing is looked up and no attempt starts; the
\* dry run returns the empty list and is answered "validated"; the real job still
\* downloads the video and returns the empty list when the download succeeded, and the
\* one {platform "all", status error} entry when it failed.
C39_EmptyPlatformList ==
    platforms = <<>> =>
        /\ resolved = {}
        /\ started = 0
        /\ invoked = {}
        /\ results = <<>>
        /\ pc # "failed"
        /\ dry_run =>
              /\ downloads = 0
              /\ pc = "done" => retval = <<>> /\ all_valid
              /\ response \in {"none", "validated"}
        /\ ~dry_run =>
              /\ pc \in {"loop", "cleanup", "return", "done"} => downloads = 1
              /\ pc = "done" =>
                    retval = IF download = "ok" THEN <<>> ELSE DownloadFailedResult

\* C39 witness: the dry run without platforms was answered "validated"
C39_Witness ==
    /\ platforms = <<>>
    /\ dry_run
    /\ pc = "done"
    /\ retval = <<>>
    /\ response = "validated"
    /\ resolved = {}

====
